---- MODULE Spec2Model ----
(***************************************************************************)
(* A model of lazy_streams.py: the materialization protocol of a chain of  *)
(* stages (list, map, filter, reverse, flatten), the terminal operations   *)
(* built on it, and the parallel driver of to_list.                        *)
(*                                                                         *)
(* A stream is the root list `lst` plus the chain `ops` of stages built    *)
(* over it: ops[k] is the k-th stage, its _parent is the chain ops[1..k-1] *)
(* (the root _LazyListStream when k = 1).  Every stage copies its parent's *)
(* _original_size, so the _original_size of every stage is Len(lst).       *)
(***************************************************************************)
EXTENDS Integers, Sequences, FiniteSets, TLC

VARIABLES
    lst,          \* _LazyListStream._lst of the root stage
    ops,          \* the chain of stages built over the root, innermost first
    size_cache,   \* size_cache[k]: the field _size of stage k (-1: not calculated)
    built,        \* how many stages have been built since stream(lst)
    obs,          \* the terminal operation just called and what it returned
    pc,           \* position of the thread running _to_list_parallel
    thread_count, \* the PromiseKeeper's number of workers
    promises,     \* the local list `promises` of _to_list_parallel
    index,        \* the local `index` of _to_list_parallel
    scan_i,       \* the loop variable i of promises_contains_no_item
    flattened,    \* _flattened_lst of the outermost flatten stage: <<>> is None
    calcs,        \* how many times the _flattened_lst computation was started
    stopped,      \* the PromiseKeeper has been stopped
    return_val    \* what _to_list_parallel returned

vars == <<lst, ops, size_cache, built, obs, pc, thread_count, promises, index,
          scan_i, flattened, calcs, stopped, return_val>>

parVars == <<pc, thread_count, promises, index, scan_i, flattened, calcs,
             stopped, return_val>>

(***************************************************************************)
(* Bounds of the model.                                                    *)
(***************************************************************************)
MaxLen == 2        \* longest root list
MaxOps == 2        \* most stages built over one root list
MaxTake == 2       \* largest num_items given to take
MaxThreads == 2    \* largest thread count given to to_list
MaxSubmit == 3     \* most promises one parallel to_list submits
MaxAhead == 2      \* most unfinished promises when one more is submitted

(***************************************************************************)
(* Python values: integers, (nested) lists and None.                       *)
(***************************************************************************)
IntV(v) == [tag |-> "int", val |-> v, elems |-> <<>>]
ListV(es) == [tag |-> "list", val |-> 0, elems |-> es]
NoneV == [tag |-> "none", val |-> 0, elems |-> <<>>]

\* the items a root list is drawn from: an odd and an even integer, a list
\* that flattens to nothing and a nested list that flattens to two items
Items == {IntV(1), IntV(2), ListV(<<>>), ListV(<<IntV(1), ListV(<<IntV(2)>>)>>)}

SeqsUpTo(S, n) == UNION {[1..m -> S] : m \in 0..n}
SourceLists == SeqsUpTo(Items, MaxLen)

\* the root lists given to the parallel to_list, whose driver sees a stage only
\* through the statuses of _materialize_item: an integer (odd, even once
\* mapped) and a list that flattens to nothing and that both predicates reject
ParItems == {IntV(1), ListV(<<>>)}
ParSourceLists == SeqsUpTo(ParItems, MaxLen)

\* the pure functions handed to map and the pure predicates handed to filter
Funcs == {"inc"}
Preds == {"even", "truthy"}
\* the or_else values handed to last_or_else
Defaults == {NoneV, IntV(0)}

\* lambda x: x + 1 if isinstance(x, int) else x
ApplyFunc(f, x) ==
    IF f = "inc" /\ x.tag = "int" THEN IntV(x.val + 1) ELSE x

\* lambda x: isinstance(x, int) and x % 2 == 0;  bool
ApplyPred(p, x) ==
    IF p = "even"
    THEN x.tag = "int" /\ x.val % 2 = 0
    ELSE \/ x.tag = "int" /\ x.val # 0
         \/ x.tag = "list" /\ x.elems # <<>>

Front(q) == SubSeq(q, 1, Len(q) - 1)
Reversed(q) == [j \in 1..Len(q) |-> q[Len(q) + 1 - j]]

(***************************************************************************)
(* _MaterializationResult.                                                 *)
(***************************************************************************)
Result(status, item) == [status |-> status, item |-> item]
NoItem == Result("NO_ITEM", NoneV)
FilteredOut == Result("FILTERED_OUT", NoneV)
Item(x) == Result("ITEM", x)

MapOp(f) == [op |-> "map", arg |-> f]
FilterOp(p) == [op |-> "filter", arg |-> p]
ReverseOp == [op |-> "reverse", arg |-> ""]
FlattenOp == [op |-> "flatten", arg |-> ""]

(***************************************************************************)
(* _list_flattener: depth-first expansion of nested lists.                 *)
(***************************************************************************)
RECURSIVE ListFlattener(_)
ListFlattener(l) ==
    IF l = <<>> THEN <<>>
    ELSE LET i == Head(l)
         IN  (IF i.tag = "list" THEN ListFlattener(i.elems) ELSE <<i>>)
             \o ListFlattener(Tail(l))

\* a Python list subscript l[index]: negative indices count from the end,
\* <<>> stands for IndexError
Subscript(l, i) ==
    IF 0 <= i /\ i < Len(l) THEN <<l[i + 1]>>
    ELSE IF i < 0 /\ -i <= Len(l) THEN <<l[Len(l) + i + 1]>>
    ELSE <<>>

\* _LazyListStream._materialize_item
ListMaterializeItem(l, i) ==
    IF i < 0 THEN NoItem
    ELSE IF Subscript(l, i) # <<>> THEN Item(Subscript(l, i)[1])
    ELSE NoItem

RECURSIVE MaterializeItem(_, _, _)
RECURSIVE ToListFrom(_, _, _, _)

\* _LazyMapStream._materialize_item
MapMaterializeItem(l, parent, f, i) ==
    LET result == MaterializeItem(l, parent, i)
    IN  IF result.status = "ITEM"
        THEN Item(ApplyFunc(f, result.item))
        ELSE result

\* a filter stage that reports a rejected item as the end of the stream
FilterMaterializeItemStops(l, parent, p, i) ==
    LET result == MaterializeItem(l, parent, i)
    IN  IF result.status = "ITEM"
        THEN (IF ApplyPred(p, result.item) THEN result ELSE NoItem)
        ELSE result

\* a filter stage that keeps the items its predicate rejects
FilterMaterializeItemNegated(l, parent, p, i) ==
    LET result == MaterializeItem(l, parent, i)
    IN  IF result.status = "ITEM"
        THEN (IF ~ApplyPred(p, result.item) THEN result ELSE FilteredOut)
        ELSE result

\* _LazyFilterStream._materialize_item
FilterMaterializeItem(l, parent, p, i) ==
    LET result == MaterializeItem(l, parent, i)
    IN  IF result.status = "ITEM"
        THEN (IF ApplyPred(p, result.item) THEN result ELSE FilteredOut)
        ELSE result

\* the index a reverse stage asks its parent for
ReverseIndex(original_size, i) == original_size - i - 1

\* a reverse stage that answers NO_ITEM from index _original_size on
ReverseMaterializeItemBounded(l, parent, i) ==
    IF i >= Len(l) THEN NoItem
    ELSE MaterializeItem(l, parent, ReverseIndex(Len(l), i))

\* _LazyReverseStream._materialize_item
ReverseMaterializeItem(l, parent, i) ==
    MaterializeItem(l, parent, ReverseIndex(Len(l), i))

\* LazyStream._to_list_serial
ToListSerial(l, o) == ToListFrom(l, o, 0, <<>>)

\* _LazyFlattenStream._calc_flattened_list, the value it computes and caches
CalcFlattenedList(l, parent) == ListFlattener(ToListSerial(l, parent))

\* _LazyFlattenStream._materialize_item, given the flattened list
FlattenSubscript(flat, i) ==
    IF Subscript(flat, i) # <<>> THEN Item(Subscript(flat, i)[1]) ELSE NoItem

FlattenMaterializeItem(l, parent, i) ==
    FlattenSubscript(CalcFlattenedList(l, parent), i)

\* _materialize_item of the head stage of the chain o over the root list l
MaterializeItem(l, o, i) ==
    IF o = <<>> THEN ListMaterializeItem(l, i)
    ELSE LET h == o[Len(o)]
             parent == Front(o)
         IN  CASE h.op = "map" -> MapMaterializeItem(l, parent, h.arg, i)
               [] h.op = "filter" -> FilterMaterializeItem(l, parent, h.arg, i)
               [] h.op = "reverse" -> ReverseMaterializeItem(l, parent, i)
               [] h.op = "flatten" -> FlattenMaterializeItem(l, parent, i)

\* the loop of _to_list_serial from `i` on, `results` collected so far
ToListFrom(l, o, i, results) ==
    LET result == MaterializeItem(l, o, i)
    IN  IF result.status = "ITEM"
        THEN ToListFrom(l, o, i + 1, Append(results, result.item))
        ELSE IF result.status = "NO_ITEM" THEN results
        ELSE ToListFrom(l, o, i + 1, results)


\* LazyStream.take: the list the new _LazyListStream wraps
RECURSIVE TakeFrom(_, _, _, _, _)
TakeFrom(l, o, num_items, i, results) ==
    IF ~(Len(results) < num_items) THEN results
    ELSE LET result == MaterializeItem(l, o, i)
         IN  IF result.status = "ITEM"
             THEN TakeFrom(l, o, num_items, i + 1, Append(results, result.item))
             ELSE IF result.status = "NO_ITEM" THEN results
             ELSE TakeFrom(l, o, num_items, i + 1, results)

Take(l, o, num_items) == TakeFrom(l, o, num_items, 0, <<>>)

\* the loop shared by first_or_else and last_or_else
RECURSIVE OrElseFrom(_, _, _, _)
OrElseFrom(l, o, i, or_else) ==
    LET result == MaterializeItem(l, o, i)
    IN  IF result.status = "ITEM" THEN result.item
        ELSE IF result.status = "NO_ITEM" THEN or_else
        ELSE OrElseFrom(l, o, i + 1, or_else)

\* LazyStream.last_or_else
LastOrElse(l, o, or_else) == OrElseFrom(l, Append(o, ReverseOp), 0, or_else)

\* sorted(), key=None, reverse=False, on integers: a stable insertion sort
RECURSIVE Insert(_, _)
Insert(x, sorted) ==
    IF sorted = <<>> THEN <<x>>
    ELSE IF x.val < Head(sorted).val THEN <<x>> \o sorted
    ELSE <<Head(sorted)>> \o Insert(x, Tail(sorted))

RECURSIVE Sorted(_)
Sorted(l) == IF l = <<>> THEN <<>> ELSE Insert(l[Len(l)], Sorted(Front(l)))

\* sorted() raises TypeError on a list that mixes integers and lists
Sortable(l) == \A j \in 1..Len(l) : l[j].tag = "int"

\* the stage whose size() answers for the head of chain o: map and reverse
\* stages hand size() to their parent (0 is the root list)
RECURSIVE SizeStage(_)
SizeStage(o) ==
    IF o = <<>> THEN 0
    ELSE IF o[Len(o)].op \in {"map", "reverse"} THEN SizeStage(Front(o))
    ELSE Len(o)

\* how often _LazyFilterStream._func is called by to_list() of the chain o,
\* whose head is a filter stage: once for every item its parent materializes
RECURSIVE FuncCallsFrom(_, _, _)
FuncCallsFrom(l, o, i) ==
    LET parent == MaterializeItem(l, Front(o), i)
    IN  IF parent.status = "NO_ITEM" THEN 0
        ELSE (IF parent.status = "ITEM" THEN 1 ELSE 0) + FuncCallsFrom(l, o, i + 1)

\* a size() that never looks at _size
FilterSizeUncached(l, o, cached) ==
    LET n == Len(ToListSerial(l, o))
    IN  <<n, n, FuncCallsFrom(l, o, 0)>>

\* _LazyFilterStream.size: <<returned value, new _size, calls of _func>>
FilterSize(l, o, cached) ==
    IF cached = -1
    THEN LET n == Len(ToListSerial(l, o))
         IN  <<n, n, FuncCallsFrom(l, o, 0)>>
    ELSE <<cached, cached, 0>>

\* size() of the head of chain o: <<returned value, caches after, calls of _func>>
Size(l, o, cache) ==
    LET k == SizeStage(o)
        chain == SubSeq(o, 1, k)
    IN  IF k = 0 THEN <<Len(l), cache, 0>>
        ELSE IF o[k].op = "flatten"
        THEN <<Len(CalcFlattenedList(l, Front(chain))), cache, 0>>
        ELSE LET r == FilterSize(l, chain, cache[k])
             IN  <<r[1], [cache EXCEPT ![k] = r[2]], r[3]>>

HasReverse(o) == \E k \in 1..Len(o) : o[k].op = "reverse"
HasFlatten(o) == \E k \in 1..Len(o) : o[k].op = "flatten"
HeadOp(o) == IF o = <<>> THEN "list" ELSE o[Len(o)].op

(***************************************************************************)
(* The sequential program: a stream is built stage by stage and terminal   *)
(* operations are called on it, one after the other.                       *)
(***************************************************************************)
NoObs == [op |-> "none"]
Indices == -1 .. (2 * MaxLen + 1)

ParIdle ==
    /\ pc = "idle"
    /\ thread_count = 0
    /\ promises = <<>>
    /\ index = 0
    /\ scan_i = 0
    /\ flattened = <<>>
    /\ calcs = 0
    /\ stopped = FALSE
    /\ return_val = <<>>

\* stream(lst)
Init ==
    /\ lst \in SourceLists
    /\ ops = <<>>
    /\ size_cache = <<>>
    /\ built = 0
    /\ obs = NoObs
    /\ ParIdle

\* map, filter, reverse, flatten: a new stage over the current head
AddStage(stage) ==
    /\ pc = "idle"
    /\ obs.op = "none"
    /\ built < MaxOps
    /\ built' = built + 1
    /\ ops' = Append(ops, stage)
    /\ size_cache' = Append(size_cache, -1)
    /\ UNCHANGED <<lst, obs, parVars>>

MapStage == \E f \in Funcs : AddStage(MapOp(f))
FilterStage == \E p \in Preds : AddStage(FilterOp(p))
ReverseStage == AddStage(ReverseOp)
FlattenStage == AddStage(FlattenOp)

\* take, sort: a new _LazyListStream over the materialized items
NewListStream(items) ==
    /\ pc = "idle"
    /\ obs.op = "none"
    /\ built < MaxOps
    /\ built' = built + 1
    /\ lst' = items
    /\ ops' = <<>>
    /\ size_cache' = <<>>
    /\ UNCHANGED <<obs, parVars>>

TakeStage ==
    /\ ops # <<>>
    /\ \E n \in 0..MaxTake : NewListStream(Take(lst, ops, n))

SortStage ==
    /\ ops # <<>>
    /\ Sortable(ToListSerial(lst, ops))
    /\ NewListStream(Sorted(ToListSerial(lst, ops)))

\* s.to_list()
DoToList ==
    /\ obs.op = "none"
    /\ obs' = [op |-> "to_list", out |-> ToListSerial(lst, ops)]
    /\ UNCHANGED <<lst, ops, size_cache, built, parVars>>

\* s.filter(p).to_list()
DoFilterToList ==
    \E p \in Preds :
        /\ obs.op = "none"
        /\ obs' = [op |-> "filter_to_list", arg |-> p,
                   out |-> ToListSerial(lst, Append(ops, FilterOp(p)))]
        /\ UNCHANGED <<lst, ops, size_cache, built, parVars>>

\* s.reverse().to_list()
DoReverseToList ==
    /\ obs.op = "none"
    /\ obs' = [op |-> "reverse_to_list",
               out |-> ToListSerial(lst, Append(ops, ReverseOp))]
    /\ UNCHANGED <<lst, ops, size_cache, built, parVars>>

\* s.last_or_else(d)
\* s.reverse().reverse().to_list()
DoReverseReverseToList ==
    /\ obs.op = "none"
    /\ obs' = [op |-> "reverse_reverse_to_list",
               out |-> ToListSerial(lst, Append(Append(ops, ReverseOp),
                                                ReverseOp))]
    /\ UNCHANGED <<lst, ops, size_cache, built, parVars>>

DoLastOrElse ==
    \E d \in Defaults :
        /\ obs.op = "none"
        /\ obs' = [op |-> "last_or_else", arg |-> d, out |-> LastOrElse(lst, ops, d)]
        /\ UNCHANGED <<lst, ops, size_cache, built, parVars>>

\* s.take(n).to_list()
DoTakeToList ==
    \E n \in 0..MaxTake :
        /\ obs.op = "none"
        /\ obs' = [op |-> "take_to_list", arg |-> n,
                   out |-> ToListSerial(Take(lst, ops, n), <<>>)]
        /\ UNCHANGED <<lst, ops, size_cache, built, parVars>>

\* s.size()
DoSize ==
    LET r == Size(lst, ops, size_cache)
    IN  /\ obs.op = "none"
        /\ obs' = [op |-> "size", out |-> r[1], calls |-> r[3]]
        /\ size_cache' = r[2]
        /\ UNCHANGED <<lst, ops, built, parVars>>

\* s._materialize_item(i)
DoMaterializeItem ==
    \E i \in Indices :
        /\ obs.op = "none"
        /\ obs' = [op |-> "materialize", arg |-> i, out |-> MaterializeItem(lst, ops, i)]
        /\ UNCHANGED <<lst, ops, size_cache, built, parVars>>

\* the caller is done with the result of the terminal operation
Discard ==
    /\ obs.op # "none"
    /\ obs' = NoObs
    /\ UNCHANGED <<lst, ops, size_cache, built, parVars>>

Next ==
    \/ MapStage
    \/ FilterStage
    \/ ReverseStage
    \/ FlattenStage
    \/ TakeStage
    \/ SortStage
    \/ DoToList
    \/ DoFilterToList
    \/ DoReverseToList
    \/ DoReverseReverseToList
    \/ DoLastOrElse
    \/ DoTakeToList
    \/ DoSize
    \/ DoMaterializeItem
    \/ Discard

Spec == Init /\ [][Next]_vars

(***************************************************************************)
(* to_list(threads) with threads > 0: the thread running _to_list_parallel *)
(* and the workers of the PromiseKeeper.  promises[j] is the promise of    *)
(* _materialize_item(j - 1).                                               *)
(***************************************************************************)
NoResult == Result("None", NoneV)
Pending == [state |-> "pending", result |-> NoResult]
Done(result) == [state |-> "done", result |-> result]

\* Promise.get_result: None until the work is done
GetResult(promise) ==
    IF promise.state = "done" THEN promise.result ELSE NoResult

\* to_list(threads) with threads > 0, up to the creation of the PromiseKeeper
ToListParallel ==
    /\ pc = "idle"
    /\ \E k \in 1..MaxThreads : thread_count' = k
    /\ promises' = <<>>
    /\ index' = 0
    /\ pc' = "submit"
    /\ UNCHANGED <<lst, ops, size_cache, built, obs, scan_i, flattened, calcs,
                   stopped, return_val>>

\* promises.append(p_keeper.submit(self._materialize_item, (index,))) and the
\* call of promises_contains_no_item
Submit ==
    /\ pc = "submit"
    /\ Len(promises) < MaxSubmit
    /\ promises' = Append(promises, Pending)
    /\ scan_i' = Len(promises)
    /\ pc' = "scan"
    /\ UNCHANGED <<lst, ops, size_cache, built, obs, thread_count, index,
                   flattened, calcs, stopped, return_val>>

\* where the thread goes when the submitting loop breaks
AfterLoopSkipsStop == "collect"

AfterLoop == "stop"

\* a stop test that also passes over NO_ITEM results
ScanContinueSkipsNoItem ==
    /\ pc = "scan"
    /\ scan_i >= 0
    /\ GetResult(promises[scan_i + 1]).status
           \in {"None", "FILTERED_OUT", "NO_ITEM"}
    /\ scan_i' = scan_i - 1
    /\ UNCHANGED <<lst, ops, size_cache, built, obs, pc, thread_count, promises,
                   index, flattened, calcs, stopped, return_val>>

\* promises_contains_no_item: a promise with no result yet, or FILTERED_OUT
ScanContinue ==
    /\ pc = "scan"
    /\ scan_i >= 0
    /\ GetResult(promises[scan_i + 1]).status \in {"None", "FILTERED_OUT"}
    /\ scan_i' = scan_i - 1
    /\ UNCHANGED <<lst, ops, size_cache, built, obs, pc, thread_count, promises,
                   index, flattened, calcs, stopped, return_val>>

\* promises_contains_no_item returns True (its local i is gone): break
ScanFound ==
    /\ pc = "scan"
    /\ scan_i >= 0
    /\ GetResult(promises[scan_i + 1]).status = "NO_ITEM"
    /\ pc' = AfterLoop
    /\ scan_i' = 0
    /\ UNCHANGED <<lst, ops, size_cache, built, obs, thread_count, promises,
                   index, flattened, calcs, stopped, return_val>>

\* promises_contains_no_item returns False (its local i is gone): index += 1
ScanNotFound ==
    /\ pc = "scan"
    /\ \/ scan_i < 0
       \/ scan_i >= 0 /\ GetResult(promises[scan_i + 1]).status = "ITEM"
    /\ index' = index + 1
    /\ pc' = "submit"
    /\ scan_i' = 0
    /\ UNCHANGED <<lst, ops, size_cache, built, obs, thread_count, promises,
                   flattened, calcs, stopped, return_val>>

\* PromiseKeeper.stop blocks until all submitted work is complete
AllDone == \A j \in 1..Len(promises) : promises[j].state = "done"

\* p_keeper.stop()
Stop ==
    /\ pc = "stop"
    /\ AllDone
    /\ stopped' = TRUE
    /\ pc' = "collect"
    /\ UNCHANGED <<lst, ops, size_cache, built, obs, thread_count, promises,
                   index, scan_i, flattened, calcs, return_val>>

\* the loop that builds return_val
RECURSIVE ReturnVal(_)
ReturnVal(ps) ==
    IF ps = <<>> THEN <<>>
    ELSE LET result == GetResult(ps[Len(ps)])
         IN  ReturnVal(Front(ps))
             \o (IF result.status \notin {"None", "NO_ITEM", "FILTERED_OUT"}
                 THEN <<result.item>> ELSE <<>>)

Collect ==
    /\ pc = "collect"
    /\ return_val' = ReturnVal(promises)
    /\ pc' = "done"
    /\ UNCHANGED <<lst, ops, size_cache, built, obs, thread_count, promises,
                   index, scan_i, flattened, calcs, stopped>>

\* the PromiseKeeper's workers take the work in the order it was submitted,
\* thread_count pieces at a time
Running(j) ==
    /\ pc \notin {"idle", "done"}
    /\ j \in 1..Len(promises)
    /\ promises[j].state # "done"
    /\ Cardinality({i \in 1..(j - 1) : promises[i].state # "done"}) < thread_count

\* _calc_flattened_list finds _flattened_lst is None and starts computing it
WorkerBegin ==
    \E j \in 1..Len(promises) :
        /\ Running(j)
        /\ promises[j].state = "pending"
        /\ HasFlatten(ops)
        /\ flattened = <<>>
        /\ promises' = [promises EXCEPT ![j].state = "calc"]
        /\ calcs' = calcs + 1
        /\ UNCHANGED <<lst, ops, size_cache, built, obs, pc, thread_count, index,
                       scan_i, flattened, stopped, return_val>>

\* the stages below the outermost flatten stage
RECURSIVE BelowFlatten(_)
BelowFlatten(o) ==
    IF o[Len(o)].op = "flatten" THEN Front(o) ELSE BelowFlatten(Front(o))

\* _calc_flattened_list stores the list it computed; _materialize_item returns
WorkerStore ==
    \E j \in 1..Len(promises) :
        /\ Running(j)
        /\ promises[j].state = "calc"
        /\ flattened' = <<CalcFlattenedList(lst, BelowFlatten(ops))>>
        /\ promises' = [promises EXCEPT ![j] = Done(MaterializeItem(lst, ops, j - 1))]
        /\ UNCHANGED <<lst, ops, size_cache, built, obs, pc, thread_count, index,
                       scan_i, calcs, stopped, return_val>>

\* _materialize_item(j - 1) with no _flattened_lst to compute
WorkerFinish ==
    \E j \in 1..Len(promises) :
        /\ Running(j)
        /\ promises[j].state = "pending"
        /\ HasFlatten(ops) => flattened # <<>>
        /\ promises' = [promises EXCEPT ![j] = Done(MaterializeItem(lst, ops, j - 1))]
        /\ UNCHANGED <<lst, ops, size_cache, built, obs, pc, thread_count, index,
                       scan_i, flattened, calcs, stopped, return_val>>

ParNext ==
    \/ MapStage
    \/ FilterStage
    \/ ReverseStage
    \/ FlattenStage
    \/ ToListParallel
    \/ Submit
    \/ ScanContinue
    \/ ScanFound
    \/ ScanNotFound
    \/ Stop
    \/ Collect
    \/ WorkerBegin
    \/ WorkerStore
    \/ WorkerFinish

\* stream(lst)
ParInit ==
    /\ lst \in ParSourceLists
    /\ ops = <<>>
    /\ size_cache = <<>>
    /\ built = 0
    /\ obs = NoObs
    /\ ParIdle

ParSpec == ParInit /\ [][ParNext]_vars

(***************************************************************************)
(* The parallel to_list under fair scheduling.  The submitting thread is   *)
(* at most MaxAhead unfinished promises ahead of the workers and submits   *)
(* the indices below Window.                                               *)
(***************************************************************************)
Window == MaxSubmit + MaxAhead

\* the promises submitted and not completed
Ahead == Cardinality({j \in 1..Len(promises) : promises[j].state # "done"})

\* promises.append(p_keeper.submit(self._materialize_item, (index,))) and the
\* call of promises_contains_no_item
SubmitAhead ==
    /\ pc = "submit"
    /\ Len(promises) < Window
    /\ Ahead < MaxAhead
    /\ promises' = Append(promises, Pending)
    /\ scan_i' = Len(promises)
    /\ pc' = "scan"
    /\ UNCHANGED <<lst, ops, size_cache, built, obs, thread_count, index,
                   flattened, calcs, stopped, return_val>>

LiveNext ==
    \/ MapStage
    \/ FilterStage
    \/ ReverseStage
    \/ FlattenStage
    \/ ToListParallel
    \/ SubmitAhead
    \/ ScanContinue
    \/ ScanFound
    \/ ScanNotFound
    \/ Stop
    \/ Collect
    \/ WorkerBegin
    \/ WorkerStore
    \/ WorkerFinish

\* a step of the thread running _to_list_parallel or of a worker
ThreadStep ==
    \/ SubmitAhead \/ ScanContinue \/ ScanFound \/ ScanNotFound
    \/ Stop \/ Collect
    \/ WorkerBegin \/ WorkerStore \/ WorkerFinish

\* While a thread can run, one does: the submitting thread takes finitely
\* many steps before it waits for the workers or returns, so every
\* submitted _materialize_item eventually completes.
LiveSpec == ParInit /\ [][LiveNext]_vars /\ WF_vars(ThreadStep)

(***************************************************************************)
(* Properties of the sequential program.                                   *)
(***************************************************************************)
Min(a, b) == IF a < b THEN a ELSE b
Accepted(l, p) == SelectSeq(l, LAMBDA x : ApplyPred(p, x))

\* C4: s.filter(p).to_list() is the subsequence of s.to_list() of the items
\* that satisfy p: same items, same multiplicity, same relative order.
C4_FilterToListSelects ==
    obs.op = "filter_to_list"
        => obs.out = Accepted(ToListSerial(lst, ops), obs.arg)

\* a filter over a built chain kept some items and dropped others
C4_Witness ==
    /\ obs.op = "filter_to_list"
    /\ ops # <<>>
    /\ obs.out # <<>>
    /\ Len(obs.out) < Len(ToListSerial(lst, ops))

\* C5: for s a source or a chain of map, filter, flatten, take or sort stages,
\* s.reverse().to_list() is s.to_list() in reverse order.
C5_ReverseToListReverses ==
    obs.op = "reverse_to_list" /\ ~HasReverse(ops)
        => obs.out = Reversed(ToListSerial(lst, ops))

\* C6: s.last_or_else(d) is the last element of s.to_list(), or d when
\* s.to_list() is empty.
C6_LastOrElseReturnsLast ==
    obs.op = "last_or_else"
        => LET all == ToListSerial(lst, ops)
           IN  obs.out = IF all = <<>> THEN obs.arg ELSE all[Len(all)]

\* C7: s.take(n).to_list() has length min(n, s.size()) and is the first
\* min(n, s.size()) elements of s.to_list().
C7_TakeIsPrefix ==
    obs.op = "take_to_list"
        => LET m == Min(obs.arg, Size(lst, ops, size_cache)[1])
           IN  /\ Len(obs.out) = m
               /\ obs.out = SubSeq(ToListSerial(lst, ops), 1, m)

\* the filter stage that answers size() for the head of the chain, or 0
SizingFilter(o) ==
    IF SizeStage(o) > 0 /\ o[SizeStage(o)].op = "filter" THEN SizeStage(o) ELSE 0

\* C8: the first size() a filter stage answers computes the number of accepted
\* items and stores it in _size; every later size() returns the stored value,
\* leaves it as it is and does not call the predicate.
C8_SizeCached ==
    [][LET k == SizingFilter(ops)
           chain == SubSeq(ops, 1, k)
       IN  k > 0 /\ obs'.op = "size" /\ ops' = ops /\ lst' = lst =>
               IF size_cache[k] = -1
               THEN /\ obs'.out = Len(Accepted(ToListSerial(lst, Front(chain)),
                                               ops[k].arg))
                    /\ size_cache'[k] = obs'.out
               ELSE /\ obs'.out = size_cache[k]
                    /\ obs'.calls = 0
                    /\ size_cache' = size_cache]_vars

\* a size() served from _size although to_list() would call the predicate
C8_Witness ==
    /\ obs.op = "size"
    /\ SizingFilter(ops) > 0
    /\ obs.out > 0
    /\ obs.calls = 0
    /\ FuncCallsFrom(lst, SubSeq(ops, 1, SizingFilter(ops)), 0) > 0

\* C9: on a source, map or reverse stage, once materialize(i) is NO_ITEM,
\* materialize(j) is NO_ITEM for every j >= i.
C9_ExhaustedIsStable ==
    /\ obs.op = "materialize"
    /\ HeadOp(ops) \in {"list", "map", "reverse"}
    /\ obs.arg >= 0
    /\ obs.out.status = "NO_ITEM"
    => \A j \in Indices :
           j >= obs.arg => MaterializeItem(lst, ops, j).status = "NO_ITEM"

\* C10 as stated: materialize(i) on a filter stage is the i-th value, in
\* parent order, that satisfies the predicate, and NO_ITEM when there is none.
C10_FilterDenseIndex ==
    obs.op = "materialize" /\ HeadOp(ops) = "filter" /\ obs.arg >= 0
        => LET acc == Accepted(ToListSerial(lst, Front(ops)), ops[Len(ops)].arg)
           IN  obs.out = IF obs.arg < Len(acc) THEN Item(acc[obs.arg + 1])
                         ELSE NoItem

\* how many of materialize(0), ..., materialize(i - 1) are items
RECURSIVE ItemsBefore(_, _, _)
ItemsBefore(l, o, i) ==
    IF i <= 0 THEN 0
    ELSE ItemsBefore(l, o, i - 1)
         + (IF MaterializeItem(l, o, i - 1).status = "ITEM" THEN 1 ELSE 0)

\* C10, amended: materialize(i) on a filter stage answers for the parent's
\* index i: the parent's item when the predicate holds for it, FILTERED_OUT
\* when it does not, the parent's own result when the parent has no item at
\* i.  For i >= 0 before the parent's first NO_ITEM the items it returns are
\* the accepted values in parent order: the number of items at lower indices
\* is the item's position among them.
C10_FilterKeepsParentIndex ==
    obs.op = "materialize" /\ HeadOp(ops) = "filter"
        => LET p == ops[Len(ops)].arg
               r == MaterializeItem(lst, Front(ops), obs.arg)
               acc == Accepted(ToListSerial(lst, Front(ops)), p)
           IN  /\ r.status # "ITEM" => obs.out = r
               /\ r.status = "ITEM" /\ ApplyPred(p, r.item) => obs.out = r
               /\ r.status = "ITEM" /\ ~ApplyPred(p, r.item) => obs.out = FilteredOut
               /\ /\ obs.out.status = "ITEM"
                  /\ obs.arg >= 0
                  /\ \A j \in 0..obs.arg :
                         MaterializeItem(lst, Front(ops), j).status # "NO_ITEM"
                  => obs.out.item = acc[ItemsBefore(lst, ops, obs.arg) + 1]

\* an accepted item sits at an index above a rejected one
C10_Witness ==
    /\ obs.op = "materialize"
    /\ HeadOp(ops) = "filter"
    /\ obs.out.status = "ITEM"
    /\ \E j \in 0..(obs.arg - 1) :
           MaterializeItem(lst, ops, j).status = "FILTERED_OUT"

\* C11: for any stage s, s.reverse().reverse().to_list() equals s.to_list().
C11_ReverseIsInvolution ==
    obs.op = "reverse_reverse_to_list" => obs.out = ToListSerial(lst, ops)

\* a doubly reversed flatten stage listing more items than the source holds
C11_Witness ==
    /\ obs.op = "reverse_reverse_to_list"
    /\ HasFlatten(ops)
    /\ Len(obs.out) > Len(lst)

(***************************************************************************)
(* Properties of the parallel to_list.                                     *)
(***************************************************************************)
\* a reverse stage somewhere above a flatten stage
ReverseAfterFlatten(o) ==
    \E a, b \in 1..Len(o) : a < b /\ o[a].op = "flatten" /\ o[b].op = "reverse"

\* C1: to_list(threads=k), k > 0, returns the list to_list(threads=0) returns,
\* whatever the order in which the workers complete.
C1_ParallelEqualsSerial ==
    pc = "done" => return_val = ToListSerial(lst, ops)

\* C2: when the parallel to_list returns, the PromiseKeeper has been stopped
\* and no submitted _materialize_item is pending or running.
C2_ReturnsDrained ==
    pc = "done" => stopped /\ AllDone

\* a parallel to_list returned after submitting indices past the first NO_ITEM
C2_Witness ==
    /\ pc = "done"
    /\ \E j \in 1..(Len(promises) - 1) : promises[j].result.status = "NO_ITEM"
    /\ return_val # <<>>

\* the stream answers NO_ITEM at every index of the window from n on
ExhaustedFrom(n) ==
    \A i \in n..(Window - 1) : MaterializeItem(lst, ops, i).status = "NO_ITEM"

C3_SingleFlight ==
    calcs <= 1

====
